---- MODULE Spec2Model ----
(***************************************************************************)
(* corporate-clock: src/main.rs.                                           *)
(*                                                                         *)
(* generate_coordinates maps a DateTime<FixedOffset> to the record         *)
(* CorporateCoordinates.  A DateTime is an instant (seconds since the Unix *)
(* epoch, UTC) together with a fixed offset in seconds; calendar fields    *)
(* are read from instant + offset.  The process main reads the clock once, *)
(* computes the coordinates and prints them; the clock advances between    *)
(* two invocations.                                                        *)
(***************************************************************************)
EXTENDS Integers, Sequences, FiniteSets, TLC

\* ------------------------------------------------------------------ bounds
\* First and last calendar year of the model.  MaxYear stands for the last
\* year chrono's NaiveDate can represent (NaiveDate::MAX.year()): a date in
\* a later year does not exist and the checked_* operations return None.
MinYear == 1999
MaxYear == 2000
\* Number of times the clock advances after the first invocation.
MaxTicks == 1

\* Times of day (seconds after local midnight) the first clock reading is
\* drawn from: midnight, one second past, 16:39:57 (the tests' time), and
\* the last second of the day.
TimesOfDay == {0, 1, 59997, 86399}
\* Fixed UTC offsets in seconds: -05:00, +00:00, +05:30.
Offsets == {-18000, 0, 19800}
\* Amounts the clock advances between two invocations: one second,
\* 16h39m57s, one day.
Steps == {1, 59997, 86400}

\* ------------------------------------------------------- program constants
SecsPerDay == 86400
WeeksInQuarter == 13

VARIABLES now, coords, prev, out, pc, ticks

vars == <<now, coords, prev, out, pc, ticks>>

\* ------------------------------------------------------- calendar (chrono)
None == [some |-> FALSE]
Some(v) == [some |-> TRUE, val |-> v]

IsLeap(y) == (y % 4 = 0 /\ y % 100 # 0) \/ y % 400 = 0

DaysInMonth(y, m) ==
  IF m = 2 THEN (IF IsLeap(y) THEN 29 ELSE 28)
  ELSE IF m \in {4, 6, 9, 11} THEN 30 ELSE 31

\* Day number (days since 1970-01-01) of a proleptic Gregorian date.
DaysFromCivil(y, m, d) ==
  LET yy  == IF m <= 2 THEN y - 1 ELSE y
      era == yy \div 400
      yoe == yy - era * 400
      mp  == (m + 9) % 12
      doy == (153 * mp + 2) \div 5 + d - 1
      doe == yoe * 365 + yoe \div 4 - yoe \div 100 + doy
  IN era * 146097 + doe - 719468

\* The proleptic Gregorian date of a day number.
CivilFromDays(z) ==
  LET z2  == z + 719468
      era == z2 \div 146097
      doe == z2 - era * 146097
      yoe == (doe - doe \div 1460 + doe \div 36524 - doe \div 146096) \div 365
      doy == doe - (365 * yoe + yoe \div 4 - yoe \div 100)
      mp  == (5 * doy + 2) \div 153
      d   == doy - (153 * mp + 2) \div 5 + 1
      m   == IF mp < 10 THEN mp + 3 ELSE mp - 9
      y   == yoe + era * 400 + (IF m <= 2 THEN 1 ELSE 0)
  IN [year |-> y, month |-> m, day |-> d]

\* NaiveDate::from_ymd_opt(y, m, d).and_hms_nano_opt(0, 0, 0, 0): a naive
\* (offset-free) date and time, None when the date does not exist.
from_ymd_opt(y, m, d) ==
  IF y \in MinYear..MaxYear /\ m \in 1..12 /\ d \in 1..DaysInMonth(y, m)
  THEN Some([year |-> y, month |-> m, day |-> d, secs |-> 0])
  ELSE None

\* NaiveDateTime::checked_add_months(Months::new(n)): the month moves by n,
\* the day is clamped to the length of the new month, the time is kept; None
\* when the resulting date is out of range.
checked_add_months(ndt, n) ==
  LET total == ndt.year * 12 + (ndt.month - 1) + n
      y     == total \div 12
      m     == (total % 12) + 1
      dim   == DaysInMonth(y, m)
      d     == IF ndt.day > dim THEN dim ELSE ndt.day
  IN IF y > MaxYear THEN None
     ELSE Some([year |-> y, month |-> m, day |-> d, secs |-> ndt.secs])

\* NaiveDateTime::checked_sub_days(Days::new(n)) without the day subtracted.
checked_sub_days_Kept(ndt, n) == Some(ndt)

\* NaiveDateTime::checked_sub_days(Days::new(n)).
checked_sub_days(ndt, n) ==
  LET c == CivilFromDays(DaysFromCivil(ndt.year, ndt.month, ndt.day) - n)
  IN IF c.year < MinYear THEN None
     ELSE Some([year |-> c.year, month |-> c.month, day |-> c.day,
                secs |-> ndt.secs])

\* FixedOffset::from_local_datetime(&ndt): the instant at which clocks with
\* offset off read ndt.
from_local_datetime(off, ndt) ==
  [utc |-> DaysFromCivil(ndt.year, ndt.month, ndt.day) * SecsPerDay
             + ndt.secs - off,
   off |-> off]

\* DateTime::naive_local(): what a clock with the DateTime's offset reads.
naive_local(dt) ==
  LET l == dt.utc + dt.off
      z == l \div SecsPerDay
      c == CivilFromDays(z)
  IN [year |-> c.year, month |-> c.month, day |-> c.day,
      secs |-> l - z * SecsPerDay]

\* DateTime::year() and DateTime::month().
year(dt) == naive_local(dt).year
month(dt) == naive_local(dt).month

\* a.signed_duration_since(b), in seconds.
signed_duration_since(a, b) == a.utc - b.utc

\* Duration::num_days() rounding toward minus infinity.
num_days_Floor(secs) == secs \div SecsPerDay

\* Duration::num_days(): whole days, truncated toward zero.
num_days(secs) ==
  IF secs >= 0 THEN secs \div SecsPerDay ELSE -((-secs) \div SecsPerDay)

\* `x as u32` for an i64 x: the value modulo 2^32.  2^32 is beyond the
\* integers TLC computes with, so a negative x, which the cast turns into
\* 2^32 + x, is represented by 2^31 + x: as in the program it becomes a
\* number larger than any day count.
I64AsU32(x) == IF x >= 0 THEN x ELSE (2147483647 + x) + 1

\* `x as u32` for an f64 x that holds an integer: saturating at 0.
F64AsU32(x) == IF x < 0 THEN 0 ELSE x

\* format!("{}", y) for a non-negative year: its decimal digits.
RECURSIVE format(_)
format(y) == IF y < 10 THEN <<y>> ELSE Append(format(y \div 10), y % 10)

\* ---------------------------------------------------- generate_coordinates
\* The quarter computed by integer division plus one.
quarter_of_DivPlusOne(t) == month(t) \div 3 + 1

\* (now.month() as f64 / 3.0).ceil() as u32
quarter_of(t) == F64AsU32((month(t) + 2) \div 3)

\* Midnight of 1 January of now's year, as a naive date and time.
start_of_year(t) == from_ymd_opt(year(t), 1, 1)

\* start_of_year + (quarter - 1) * 3 months, in now's offset; None where an
\* unwrap of the program meets None.
start_of_quarter(t) ==
  LET soy == start_of_year(t)
      nd  == IF soy.some
             THEN checked_add_months(soy.val, (quarter_of(t) - 1) * 3)
             ELSE None
  IN IF nd.some THEN Some(from_local_datetime(t.off, nd.val)) ELSE None

\* The end of the quarter put at the last second of its last day.
end_of_quarter_EndOfDay(t) ==
  LET soy == start_of_year(t)
      nm  == IF soy.some
             THEN checked_add_months(soy.val, quarter_of(t) * 3)
             ELSE None
      nd  == IF nm.some THEN checked_sub_days(nm.val, 1) ELSE None
  IN IF nd.some
     THEN Some(from_local_datetime(t.off, [nd.val EXCEPT !.secs = SecsPerDay - 1]))
     ELSE None

\* start_of_year + quarter * 3 months - 1 day, in now's offset; None where
\* an unwrap of the program meets None.
end_of_quarter(t) ==
  LET soy == start_of_year(t)
      nm  == IF soy.some
             THEN checked_add_months(soy.val, quarter_of(t) * 3)
             ELSE None
      nd  == IF nm.some THEN checked_sub_days(nm.val, 1) ELSE None
  IN IF nd.some THEN Some(from_local_datetime(t.off, nd.val)) ELSE None

\* The completed weeks rounded up.
full_week_of_quarter_done_Ceil(t, soq) ==
  F64AsU32((num_days(signed_duration_since(t, soq)) + 6) \div 7)

\* The completed weeks counted from the start of the year.
full_week_of_quarter_done_OfYear(t, soq) ==
  F64AsU32(num_days(signed_duration_since(
             t, from_local_datetime(t.off, start_of_year(t).val))) \div 7)

\* (now.signed_duration_since(start_of_quarter).num_days() as f64 / 7.0)
\*   .floor() as u32
full_week_of_quarter_done(t, soq) ==
  F64AsU32(num_days(signed_duration_since(t, soq)) \div 7)

\* end_of_quarter.signed_duration_since(now).num_days() + 1, before the cast.
days_left_signed(t, eoq) == num_days(signed_duration_since(eoq, t)) + 1

\* The days left without the + 1.
days_left_in_quarter_NoPlusOne(t, eoq) ==
  I64AsU32(num_days(signed_duration_since(eoq, t)))

\* (end_of_quarter.signed_duration_since(now).num_days() + 1) as u32
days_left_in_quarter(t, eoq) == I64AsU32(days_left_signed(t, eoq))

\* The days of the quarter counted with both end points.
days_in_quarter_Inclusive(soq, eoq) ==
  I64AsU32(num_days(signed_duration_since(eoq, soq)) + 1)

\* (end_of_quarter.signed_duration_since(start_of_quarter).num_days()) as u32
days_in_quarter(soq, eoq) ==
  I64AsU32(num_days(signed_duration_since(eoq, soq)))

\* The outcome of a call that panicked, and the value of coords and prev
\* before the first call.
Panic == [ok |-> FALSE]
NoCoordinates == [ok |-> FALSE]

generate_coordinates(t) ==
  LET soq == start_of_quarter(t)
      eoq == end_of_quarter(t)
  IN IF ~soq.some \/ ~eoq.some THEN Panic
     ELSE [ok                        |-> TRUE,
           generation_time           |-> t,
           year                      |-> format(year(t)),
           quarter                   |-> quarter_of(t),
           start_of_quarter          |-> soq.val,
           end_of_quarter            |-> eoq.val,
           full_week_of_quarter_done |-> full_week_of_quarter_done(t, soq.val),
           weeks_in_quarter          |-> WeeksInQuarter,
           days_left_in_quarter      |-> days_left_in_quarter(t, eoq.val),
           days_in_quarter           |-> days_in_quarter(soq.val, eoq.val)]

\* print_summary: the numbers of the four lines.  percent is the percentage
\* of the third line in hundredths, as "{:.2}" rounds it.
print_summary(c) ==
  [weeks     |-> c.full_week_of_quarter_done,
   quarter   |-> c.quarter,
   year      |-> c.year,
   each      |-> c.weeks_in_quarter,
   percent   |-> (2 * 10000 * c.days_left_in_quarter + c.days_in_quarter)
                   \div (2 * c.days_in_quarter),
   days_left |-> c.days_left_in_quarter,
   time      |-> c.generation_time]

\* ------------------------------------------------------------ state machine
\* The clock readings local_to_fixed(&Local::now()) can return first.
ClockReadings ==
  { from_local_datetime(off, [year |-> y, month |-> m, day |-> d, secs |-> s]) :
      <<y, m, d, s, off>> \in
        { x \in (MinYear..MaxYear) \X (1..12) \X (1..31) \X TimesOfDay \X Offsets :
            x[3] <= DaysInMonth(x[1], x[2]) } }

Init ==
  /\ now \in ClockReadings
  /\ coords = NoCoordinates
  /\ prev = NoCoordinates
  /\ out = <<>>
  /\ pc = "clock"
  /\ ticks = 0

\* main: generate_coordinates(&local_to_fixed(&Local::now())) and then
\* print_summary(&coordinates); a panic ends the process before it prints.
Main ==
  /\ pc = "clock"
  /\ coords' = generate_coordinates(now)
  /\ prev' = coords
  /\ out' = IF coords'.ok THEN print_summary(coords') ELSE <<>>
  /\ pc' = IF coords'.ok THEN "printed" ELSE "panicked"
  /\ UNCHANGED <<now, ticks>>

\* The clock advances before the program is run again.
Tick ==
  /\ pc \in {"printed", "panicked"}
  /\ ticks < MaxTicks
  /\ \E s \in Steps :
       /\ now' = [now EXCEPT !.utc = @ + s]
       /\ year(now') <= MaxYear
  /\ ticks' = ticks + 1
  /\ pc' = "clock"
  /\ UNCHANGED <<coords, prev, out>>

Next == Main \/ Tick

Spec == Init /\ [][Next]_vars

\* ------------------------------------------------------------- properties
\* The timestamp the last returned record was computed from.
T == coords.generation_time

\* Local calendar day number and seconds after local midnight of a DateTime.
LocalDay(dt) == (dt.utc + dt.off) \div SecsPerDay
LocalSecs(dt) == (dt.utc + dt.off) % SecsPerDay

\* The calendar: quarter of each month, last day of each quarter's last month.
QuarterTable == <<1, 1, 1, 2, 2, 2, 3, 3, 3, 4, 4, 4>>
LastDayTable == <<31, 30, 30, 31>>

\* T is on the last calendar day of its quarter, by the calendar.
OnLastDay ==
  /\ month(T) = 3 * QuarterTable[month(T)]
  /\ naive_local(T).day = LastDayTable[QuarterTable[month(T)]]

\* T is the first instant of its quarter, by the calendar.
FirstInstant ==
  /\ month(T) = 3 * (QuarterTable[month(T)] - 1) + 1
  /\ naive_local(T).day = 1
  /\ LocalSecs(T) = 0

\* C1 as stated: start_of_quarter <= t <= end_of_quarter as instants, for
\* every t, times after midnight on the last day of the quarter included.
C1_Original ==
  coords.ok =>
    /\ coords.start_of_quarter.utc <= T.utc
    /\ T.utc <= coords.end_of_quarter.utc

\* C1 amended: start_of_quarter <= t < end_of_quarter + 1 day for every t, and
\* t <= end_of_quarter exactly when t is not after local midnight on the last
\* calendar day of its quarter.
C1_Within ==
  coords.ok =>
    /\ coords.start_of_quarter.utc <= T.utc
    /\ T.utc < coords.end_of_quarter.utc + SecsPerDay
    /\ (T.utc <= coords.end_of_quarter.utc) <=> ~(OnLastDay /\ LocalSecs(T) > 0)

C1_Witness ==
  /\ coords.ok
  /\ OnLastDay
  /\ LocalSecs(T) > 0
  /\ T.off # 0
  /\ T.utc > coords.end_of_quarter.utc

\* C2 as stated: days_left_in_quarter is the inclusive count of calendar days
\* from t's local date to end_of_quarter's local date, whatever the time of
\* day of t.
C2_Original ==
  coords.ok =>
    coords.days_left_in_quarter
      = LocalDay(coords.end_of_quarter) - LocalDay(T) + 1

\* C3: quarter = ceil(month / 3), in 1..4: months 1-3 give 1, 4-6 give 2,
\* 7-9 give 3, 10-12 give 4, the month read in t's own offset.
C3_Quarter ==
  coords.ok =>
    /\ coords.quarter \in 1..4
    /\ coords.quarter = QuarterTable[month(T)]
    /\ 3 * (coords.quarter - 1) < month(T)
    /\ month(T) <= 3 * coords.quarter

C3_Witness ==
  /\ coords.ok
  /\ month(T) = 3
  /\ naive_local(T).day = 31
  /\ T.off # 0
  /\ coords.quarter = 1

\* C4: for t in quarter q of year y, start_of_quarter is local midnight on day
\* 1 of month 3(q-1)+1 of y and end_of_quarter is local midnight on the last
\* day (31 Mar, 30 Jun, 30 Sep, 31 Dec) of month 3q of y, both in t's offset;
\* two timestamps of the same year and quarter get the same boundaries.
C4_Boundaries ==
  coords.ok =>
    LET q == QuarterTable[month(T)]
        y == year(T)
    IN /\ coords.start_of_quarter.off = T.off
       /\ coords.end_of_quarter.off = T.off
       /\ naive_local(coords.start_of_quarter)
            = [year |-> y, month |-> 3 * (q - 1) + 1, day |-> 1, secs |-> 0]
       /\ naive_local(coords.end_of_quarter)
            = [year |-> y, month |-> 3 * q, day |-> LastDayTable[q], secs |-> 0]
       /\ (prev.ok /\ year(prev.generation_time) = y
                   /\ QuarterTable[month(prev.generation_time)] = q)
            => /\ prev.start_of_quarter = coords.start_of_quarter
               /\ prev.end_of_quarter = coords.end_of_quarter

C4_Witness ==
  /\ coords.ok
  /\ prev.ok
  /\ coords.quarter = 4
  /\ prev.quarter = 4
  /\ T.off # 0
  /\ prev.generation_time # T
  /\ naive_local(coords.end_of_quarter).year = year(T)
  /\ naive_local(coords.end_of_quarter).day = 31

\* C5 as stated: generate_coordinates returns a record for every valid
\* timestamp, 31 December and the last representable year included: no run of
\* main ends in a panic.
C5_Total == pc # "panicked"

\* C6: full_week_of_quarter_done = floor(d / 7) with d the whole days from
\* start_of_quarter to t; it is never negative, it is 0 on the first seven
\* days of the quarter and it never exceeds floor(days_in_quarter / 7).
C6_Weeks ==
  coords.ok =>
    LET secs == T.utc - coords.start_of_quarter.utc
        d    == secs \div SecsPerDay
    IN /\ secs >= 0
       /\ d = LocalDay(T) - LocalDay(coords.start_of_quarter)
       /\ coords.full_week_of_quarter_done = d \div 7
       /\ coords.full_week_of_quarter_done >= 0
       /\ d < 7 => coords.full_week_of_quarter_done = 0
       /\ coords.full_week_of_quarter_done <= coords.days_in_quarter \div 7

C6_Witness ==
  /\ coords.ok
  /\ OnLastDay
  /\ LocalSecs(T) > 0
  /\ coords.full_week_of_quarter_done = 13
  /\ coords.full_week_of_quarter_done = coords.days_in_quarter \div 7

\* C7: days_left_in_quarter >= 1, the signed day difference being >= 0
\* before the cast; on the last calendar day of the quarter, at any time of
\* day, days_left_in_quarter = 1.
C7_DaysLeft ==
  coords.ok =>
    /\ num_days(signed_duration_since(coords.end_of_quarter, T)) >= 0
    /\ days_left_signed(T, coords.end_of_quarter) >= 1
    /\ coords.days_left_in_quarter >= 1
    /\ OnLastDay => coords.days_left_in_quarter = 1

C7_Witness ==
  /\ coords.ok
  /\ OnLastDay
  /\ LocalSecs(T) = 86399
  /\ coords.days_left_in_quarter = 1

\* The calendar days of quarter q of year y, both end points counted.
CalendarDays(y, q) ==
  DaysInMonth(y, 3 * q - 2) + DaysInMonth(y, 3 * q - 1) + DaysInMonth(y, 3 * q)

\* C8 as stated: days_in_quarter is one of 90, 91, 92.
C8_Original == coords.ok => coords.days_in_quarter \in {90, 91, 92}

\* C8 amended: days_in_quarter is one of 89, 90, 91, one less than the
\* calendar days of the quarter: 89 in Q1 of a common year, 90 in Q1 of a
\* leap year and in Q2, 91 in Q3 and Q4.
C8_DaysInQuarter ==
  coords.ok =>
    /\ coords.days_in_quarter \in {89, 90, 91}
    /\ coords.days_in_quarter
         = CalendarDays(year(T), QuarterTable[month(T)]) - 1
    /\ coords.days_in_quarter
         = CASE coords.quarter = 1 -> (IF IsLeap(year(T)) THEN 90 ELSE 89)
             [] coords.quarter = 2 -> 90
             [] OTHER -> 91

C8_Witness ==
  /\ coords.ok
  /\ coords.quarter = 1
  /\ ~IsLeap(year(T))
  /\ coords.days_in_quarter = 89

\* C9: days_left_in_quarter <= days_in_quarter + 1, with equality exactly at
\* the first instant of the quarter; at every other t days_left_in_quarter
\* <= days_in_quarter, so the printed percentage is above 100 only there.
C9_LeftVsIn ==
  coords.ok =>
    /\ coords.days_left_in_quarter <= coords.days_in_quarter + 1
    /\ (coords.days_left_in_quarter = coords.days_in_quarter + 1)
         <=> FirstInstant
    /\ ~FirstInstant => coords.days_left_in_quarter <= coords.days_in_quarter
    /\ (print_summary(coords).percent > 10000) <=> FirstInstant

C9_Witness ==
  /\ coords.ok
  /\ FirstInstant
  /\ T.off # 0
  /\ coords.days_left_in_quarter = coords.days_in_quarter + 1
  /\ pc = "printed"
  /\ out.percent > 10000

\* C10: between two successive readings t1 <= t2 in the same offset, if both
\* are in the same year and quarter then full_week_of_quarter_done does not
\* decrease and days_left_in_quarter does not increase; if the clock crossed
\* into the next quarter (the readings are at most a day apart) then
\* full_week_of_quarter_done is 0 again and the new start_of_quarter is one
\* day after the old end_of_quarter.
C10_Advance ==
  (prev.ok /\ coords.ok) =>
    LET t1   == prev.generation_time
        same == /\ year(t1) = year(T)
                /\ QuarterTable[month(t1)] = QuarterTable[month(T)]
    IN /\ t1.utc <= T.utc
       /\ t1.off = T.off
       /\ same =>
            /\ prev.full_week_of_quarter_done <= coords.full_week_of_quarter_done
            /\ prev.days_left_in_quarter >= coords.days_left_in_quarter
       /\ ~same =>
            /\ coords.full_week_of_quarter_done = 0
            /\ coords.start_of_quarter.utc
                 = prev.end_of_quarter.utc + SecsPerDay

C10_Witness ==
  /\ prev.ok
  /\ coords.ok
  /\ prev.quarter = 1
  /\ coords.quarter = 2
  /\ prev.full_week_of_quarter_done = 12
  /\ coords.full_week_of_quarter_done = 0
  /\ prev.days_left_in_quarter = 1
  /\ coords.days_left_in_quarter > 1

====
